---------------------------- MODULE Spec2Model ----------------------------
(***************************************************************************)
(* A model of src/core/fonts_utils.js (pdf.js):                            *)
(*   - recoverGlyphName       (specification SpecRecover)                  *)
(*   - type1FontGlyphMapping  (specification SpecFont)                     *)
(*   - compileType3Glyph      (specification SpecGlyph)                    *)
(*   - normalizeFontName      (specification SpecNormalize)                *)
(* The functions share no state, so each specification runs one of them    *)
(* and holds the variables of the others at their idle values.             *)
(***************************************************************************)
EXTENDS Integers, Sequences, FiniteSets

VARIABLES
  \* ---- recoverGlyphName: one call, then a second call on its result
  rName,              \* the `name` argument
  rMap,               \* the `glyphsUnicodeMap` argument, in enumeration order
  rResult,            \* the values returned so far, oldest first
  rLookups,           \* getUnicodeForGlyph calls made by each call so far
  \* ---- type1FontGlyphMapping
  properties,         \* flags, isInternalFont, baseEncodingName, differences
  builtInEncoding,    \* [kind, names, ids]: an array of names or a map of ids
  glyphNames,         \* glyph names, glyph id = index (0-based in the code)
  charCodeToGlyphId,  \* the table under construction
  glyphsUnicodeMap,   \* <<>> while undefined, <<map>> once fetched
  pending,            \* the keys of `differences` the for-in has not visited
  fetchCount,         \* number of getGlyphsUnicode() calls of this call
  fpc,                \* position: "idle", "base", "diffs", "done"
  \* ---- compileType3Glyph
  width, height, img, \* the argument { data: img, width, height }
  data,               \* the unpacked mask, one cell per bit, 0-based
  reads,              \* the indices of `data` that have been read so far
  points,             \* the corner grid, 0-based, width1 * (height + 1) cells
  count,              \* the running number of non-zero corner points
  i, j, pos, j0, sum, \* the loop variables of the classification and the scan
  p, p0, type,        \* the walk: current point, start point, direction
  pathBuf,            \* the path commands pushed so far
  result,             \* "none" while running, then "null" or "outline"
  gpc,                \* position: "idle", "gate", "unpack", "top", "rows",
                      \* "bottom", "scan", "walk", "done", "diverged"
  \* ---- normalizeFontName
  nName,              \* the `name` argument, a sequence of characters
  nResult             \* <<>> before the call, <<returned string>> after it

fontVars == <<properties, builtInEncoding, glyphNames, charCodeToGlyphId,
              glyphsUnicodeMap, pending, fetchCount, fpc>>
recoverVars == <<rName, rMap, rResult, rLookups>>
glyphVars == <<width, height, img, data, reads, points, count, i, j, pos, j0,
               sum, p, p0, type, pathBuf, result, gpc>>
normVars == <<nName, nResult>>

(***************************************************************************)
(* Bounds of the model.                                                    *)
(***************************************************************************)
MaxCode == 2        \* char codes of builtInEncoding / differences: 0..MaxCode-1
MaxGlyphs == 2      \* glyphNames holds at most this many names
MaxMapLen == 2      \* entries of the map handed to recoverGlyphName
MaxArea == 9        \* every bitmap with width * height <= MaxArea is an input
MaxNameLen == 3     \* a font name holds at most this many characters

(***************************************************************************)
(* Helpers standing for JavaScript built-ins.                              *)
(***************************************************************************)
Range(f) == {f[x] : x \in DOMAIN f}

Max(S) == CHOOSE x \in S : \A y \in S : y <= x
Min(S) == CHOOSE x \in S : \A y \in S : x <= y

\* a & b on non-negative integers
RECURSIVE BitAnd(_, _)
BitAnd(a, b) ==
  IF a = 0 \/ b = 0 THEN 0
  ELSE (a % 2) * (b % 2) + 2 * BitAnd(a \div 2, b \div 2)

\* Array.prototype.indexOf: first 0-based index of x, or -1
IndexOf(arr, x) ==
  IF x \in Range(arr) THEN Min({k \in 1..Len(arr) : arr[k] = x}) - 1 ELSE -1

\* The non-empty sequences over S of length at most n, without repetition
InjSeqs(S, n) ==
  UNION {{s \in [1..k -> S] : \A a, b \in 1..k : a # b => s[a] # s[b]} : k \in 1..n}

PartialFns(D, V) == UNION {[S -> V] : S \in SUBSET D}

(***************************************************************************)
(* The glyph names of the model and the external tables.                   *)
(***************************************************************************)
Names == {"mu", "mu1", "uni00B5", "foo"}

\* getUnicodeForGlyph's reading of a synthetic 'uniXXXX' name; -1 otherwise
UniNameCode(name) == IF name = "uni00B5" THEN 181 ELSE -1

MapKeys(map) == {map[k][1] : k \in DOMAIN map}
MapGet(map, name) == map[Min({k \in DOMAIN map : map[k][1] = name})][2]

\* unicode.js getUnicodeForGlyph(name, glyphsUnicode)
getUnicodeForGlyph(name, map) ==
  IF name \in MapKeys(map) THEN MapGet(map, name) ELSE UniNameCode(name)

\* glyphlist.js getGlyphsUnicode(): "mu" and "mu1" both name U+00B5
getGlyphsUnicode == <<(<<"mu", 181>>), (<<"mu1", 181>>)>>

\* encodings.js: two short code -> name tables ("" where no glyph is encoded)
StandardEncoding == <<"", "mu">>
WinAnsiEncoding == <<"mu1", "mu", "">>
getEncoding(encodingName) ==
  IF encodingName = "WinAnsiEncoding" THEN WinAnsiEncoding ELSE StandardEncoding

Symbolic == 4       \* FontFlags.Symbolic

(***************************************************************************)
(* recoverGlyphName(name, glyphsUnicodeMap)                                *)
(***************************************************************************)
\* the for-in scan: the first key whose value is `unicode`, in enumeration order
FirstKeyWith(map, unicode) ==
  map[Min({k \in DOMAIN map : map[k][2] = unicode})][1]

\* a recovery without the early return of lines 85-87
RecoverNoFastPath(name, map) ==
  LET unicode == getUnicodeForGlyph(name, map) IN
  IF unicode # -1 /\ \E k \in DOMAIN map : map[k][2] = unicode
    THEN FirstKeyWith(map, unicode)
    ELSE name

recoverGlyphName(name, map) ==
  IF name \in MapKeys(map) THEN name
  ELSE LET unicode == getUnicodeForGlyph(name, map) IN
       IF unicode # -1 /\ \E k \in DOMAIN map : map[k][2] = unicode
         THEN FirstKeyWith(map, unicode)
         ELSE name

\* number of getUnicodeForGlyph calls one recoverGlyphName call makes
recoverLookups(name, map) == IF name \in MapKeys(map) THEN 0 ELSE 1

RecoverIdle ==
  /\ rName = "" /\ rMap = <<>> /\ rResult = <<>> /\ rLookups = <<>>

MapPairs == Names \X {181, 65}
RecoverMaps ==
  {m \in UNION {[1..k -> MapPairs] : k \in 0..MaxMapLen} :
     \A a, b \in DOMAIN m : a # b => m[a][1] # m[b][1]}

RecoverCall ==
  /\ rName # ""
  /\ Len(rResult) < 2
  /\ LET arg == IF rResult = <<>> THEN rName ELSE rResult[Len(rResult)] IN
     /\ rResult' = Append(rResult, recoverGlyphName(arg, rMap))
     /\ rLookups' = Append(rLookups, recoverLookups(arg, rMap))
  /\ UNCHANGED <<rName, rMap>>

(***************************************************************************)
(* type1FontGlyphMapping(properties, builtInEncoding, glyphNames)          *)
(***************************************************************************)
NoEncodingName == ""     \* properties.baseEncodingName absent (falsy)

\* builtInEncoding: an array of glyph names (holes allowed), or a map of ids
\* (the field of the other kind is empty)
NameArrays ==
  {[kind |-> "names", names |-> m, ids |-> <<>>] : m \in PartialFns(0..MaxCode-1, {"mu"})}
IdMaps ==
  {[kind |-> "ids", names |-> <<>>, ids |-> m] : m \in PartialFns(0..MaxCode-1, {1, 3})}

\* `length` of a JavaScript array whose set indices are DOMAIN m
ArrayLength(m) == IF DOMAIN m = {} THEN 0 ELSE Max(DOMAIN m) + 1

\* arr[charCode] of a sparse array: "" stands for undefined (never a glyph name)
ArrayGet(m, c) == IF c \in DOMAIN m THEN m[c] ELSE ""

isSymbolicFont(props) == BitAnd(props.flags, Symbolic) # 0

\* a selection that tests the Symbolic bit before isInternalFont
BaseBranchSymbolicFirst(props) ==
  IF isSymbolicFont(props) /\ props.baseEncodingName = NoEncodingName THEN "symbolic"
  ELSE IF props.isInternalFont THEN "internal"
  ELSE IF props.baseEncodingName # NoEncodingName THEN "named"
  ELSE "standard"

\* the if / else-if chain of lines 116-143
BaseBranch(props) ==
  IF props.isInternalFont THEN "internal"
  ELSE IF props.baseEncodingName # NoEncodingName THEN "named"
  ELSE IF isSymbolicFont(props) THEN "symbolic"
  ELSE "standard"

\* glyphId >= 0 ? glyphId : 0 without the clamp
NotdefUnclamped(glyphId) == glyphId

\* glyphId >= 0 ? glyphId : /* notdef = */ 0
Notdef(glyphId) == IF glyphId >= 0 THEN glyphId ELSE 0

\* the loops `for (charCode = 0; charCode < baseEncoding.length; charCode++)`
TranslateArray(m, names) ==
  [c \in 0..(ArrayLength(m) - 1) |-> Notdef(IndexOf(names, ArrayGet(m, c)))]

TranslateTable(table, names) ==
  [c \in 0..(Len(table) - 1) |-> Notdef(IndexOf(names, table[c + 1]))]

\* the base pass, lines 116-143
BaseTable(props, builtIn, names) ==
  LET branch == BaseBranch(props) IN
  IF branch = "internal" THEN TranslateArray(builtIn.names, names)
  ELSE IF branch = "named" THEN TranslateTable(getEncoding(props.baseEncodingName), names)
  ELSE IF branch = "symbolic" THEN builtIn.ids
  ELSE TranslateTable(StandardEncoding, names)

\* a merge that keeps the base pass's value where there is one
PutKeepBase(table, charCode, glyphId) ==
  [c \in DOMAIN table \cup {charCode} |->
     IF c \in DOMAIN table THEN table[c] ELSE glyphId]

\* charCodeToGlyphId[charCode] = glyphId
Put(table, charCode, glyphId) ==
  [c \in DOMAIN table \cup {charCode} |-> IF c = charCode THEN glyphId ELSE table[c]]

\* a test that takes the map for missing on every miss
NotFetchedEver(cache) == TRUE

\* !glyphsUnicodeMap (line 154)
NotFetched(cache) == cache = <<>>

\* a merge that never retries the lookup with the recovered name
DifferenceNoRetry(glyphName, names, map) == Notdef(IndexOf(names, glyphName))

\* lines 150-162 for one differences entry, given the (fetched) map
DifferenceGlyphId(glyphName, names, map) ==
  LET glyphId == IndexOf(names, glyphName) IN
  IF glyphId = -1
    THEN LET standardGlyphName == recoverGlyphName(glyphName, map) IN
         IF standardGlyphName # glyphName
           THEN Notdef(IndexOf(names, standardGlyphName))
           ELSE Notdef(glyphId)
    ELSE Notdef(glyphId)

FontInputs ==
  {in \in [properties : [flags : {0, Symbolic},
                         isInternalFont : BOOLEAN,
                         baseEncodingName : {NoEncodingName, "WinAnsiEncoding"},
                         differences : PartialFns(0..MaxCode-1, {"mu1", "uni00B5", "foo"})],
           builtInEncoding : NameArrays \cup IdMaps,
           glyphNames : InjSeqs({"mu", "mu1", "uni00B5"}, MaxGlyphs)] :
     \* glyphNames holds at least the glyph of id 0; the caller hands names to
     \* the internal branch and ids to the symbolic one
     /\ in.properties.isInternalFont => in.builtInEncoding.kind = "names"
     /\ (/\ ~in.properties.isInternalFont
         /\ in.properties.baseEncodingName = NoEncodingName
         /\ in.properties.flags = Symbolic) => in.builtInEncoding.kind = "ids"}

FontIdle ==
  /\ properties = [flags |-> 0, isInternalFont |-> FALSE,
                   baseEncodingName |-> NoEncodingName, differences |-> <<>>]
  /\ builtInEncoding = [kind |-> "names", names |-> <<>>, ids |-> <<>>]
  /\ glyphNames = <<>>
  /\ charCodeToGlyphId = <<>>
  /\ glyphsUnicodeMap = <<>>
  /\ pending = {}
  /\ fetchCount = 0
  /\ fpc = "idle"

\* lines 112-143
BasePass ==
  /\ fpc = "base"
  /\ charCodeToGlyphId' = BaseTable(properties, builtInEncoding, glyphNames)
  /\ pending' = DOMAIN properties.differences
  /\ fpc' = "diffs"
  /\ UNCHANGED <<properties, builtInEncoding, glyphNames, glyphsUnicodeMap, fetchCount>>

\* one iteration of `for (charCode in differences)`, lines 149-163
MergeDifference ==
  /\ fpc = "diffs"
  /\ pending # {}
  /\ LET charCode == Min(pending)
         glyphName == properties.differences[charCode]
         miss == IndexOf(glyphNames, glyphName) = -1
         fetch == miss /\ NotFetched(glyphsUnicodeMap)
         map == IF fetch THEN getGlyphsUnicode
                ELSE IF miss THEN glyphsUnicodeMap[1] ELSE <<>>
     IN
     /\ glyphsUnicodeMap' = IF fetch THEN <<getGlyphsUnicode>> ELSE glyphsUnicodeMap
     /\ fetchCount' = IF fetch THEN fetchCount + 1 ELSE fetchCount
     /\ charCodeToGlyphId' =
          Put(charCodeToGlyphId, charCode, DifferenceGlyphId(glyphName, glyphNames, map))
     /\ pending' = pending \ {charCode}
  /\ UNCHANGED <<properties, builtInEncoding, glyphNames, fpc>>

\* line 165
ReturnTable ==
  /\ fpc = "diffs"
  /\ pending = {}
  /\ fpc' = "done"
  /\ UNCHANGED <<properties, builtInEncoding, glyphNames, charCodeToGlyphId,
                 glyphsUnicodeMap, pending, fetchCount>>

(***************************************************************************)
(* compileType3Glyph({ data: img, width, height })                         *)
(***************************************************************************)
MAX_SIZE_TO_COMPILE == 1000
POINT_TO_PROCESS_LIMIT == 1000

\* POINT_TYPES[k], k in 0..15
POINT_TYPES(k) ==
  <<0, 2, 4, 0, 1, 0, 5, 4, 8, 10, 0, 8, 0, 2, 1, 0>>[k + 1]

width1 == width + 1

\* (width + 7) & ~7
lineSize == ((width + 7) \div 8) * 8

\* a | b on non-negative integers
BitOr(a, b) == a + b - BitAnd(a, b)

\* a read of a typed array: -1 stands for undefined (out of range)
At(arr, k) == IF k \in DOMAIN arr THEN arr[k] ELSE -1

\* a truthiness that holds of every value
TruthyAlways(v) == TRUE

\* JavaScript truthiness of such a read
Truthy(v) == v > 0

\* a test that takes a zero cell for a set one
IsSetInverted(v) == v = 0

\* data[pos] !== 0
IsSet(v) == v # 0

\* arr[k] = v on a typed array: a write out of range is dropped
Store(arr, k, v) == IF k \in DOMAIN arr THEN [arr EXCEPT ![k] = v] ELSE arr

\* an unpacking that takes the least significant bit of every byte first
UnpackLsbFirst(bytes, size) ==
  [k \in 0..(size - 1) |->
     IF k \div 8 < Len(bytes)
       THEN IF BitAnd(bytes[(k \div 8) + 1], 2 ^ (k % 8)) # 0 THEN 0 ELSE 255
       ELSE 0]

\* lines 229-237: every byte of img spreads over eight cells, mask 128 first;
\* cells past the last byte keep the 0 of `new Uint8Array`
Unpack(bytes, size) ==
  [k \in 0..(size - 1) |->
     IF k \div 8 < Len(bytes)
       THEN IF BitAnd(bytes[(k \div 8) + 1], 2 ^ (7 - (k % 8))) # 0 THEN 0 ELSE 255
       ELSE 0]

\* a table of steps without the upward one
StepsNoUp(t) ==
  CASE t = 1 -> width1
    [] t = 2 -> -1
    [] t = 8 -> 1
    [] OTHER -> 0

\* steps[type]; 0 where the Int32Array holds 0
Steps(t) ==
  CASE t = 1 -> width1
    [] t = 2 -> -1
    [] t = 4 -> -width1
    [] t = 8 -> 1
    [] OTHER -> 0

\* do { p += step; } while (!points[p]): the point reached, or -1 when the
\* loop never ends (it left the array, or stands on a zero cell with step 0)
RECURSIVE Seek(_, _, _)
Seek(pts, q, step) ==
  IF q \notin DOMAIN pts THEN -1
  ELSE IF pts[q] # 0 THEN q
  ELSE IF step = 0 THEN -1
  ELSE Seek(pts, q + step, step)

\* a * x + c * y + e and b * x + d * y + f of the DOMMatrix of lines 323-325,
\* as exact fractions <<numerator, denominator>>: x / width and 1 - y / height
\* a transform that does not scale the horizontal axis by 1 / width
CoordXUnscaled(x, y) == <<x, 1>>

CoordX(x, y) == <<x, width>>

\* a transform without the flip of the vertical axis
CoordYNoFlip(x, y) == <<y, height>>

CoordY(x, y) == <<height - y, height>>

PathCmd(op, x, y) == [op |-> op, x |-> CoordX(x, y), y |-> CoordY(x, y)]

\* a crossing rule that consumes the cell on the first visit
CrossingKeepZero(pp, t) == 0

\* points[p] &= (type >> 2) | (type << 2), with type the new direction
CrossingKeep(pp, t) == BitAnd(pp, BitOr(t \div 4, t * 4))

\* a crossing rule that takes the lower direction bit of the crossing code,
\* whatever the incoming direction
CrossingTurnLow(pp, t) == IF pp = 5 THEN 1 ELSE 2

\* type = pp & ((0x33 * type) >> 4)
CrossingTurn(pp, t) == BitAnd(pp, (51 * t) \div 16)

\* a test that takes every visited cell for consumed
ConsumedAlways(v) == TRUE

\* !points[p] (line 365)
Consumed(v) == v = 0

\* a budget test against twice the limit
OverLimitDouble(n) == n > 2 * POINT_TO_PROCESS_LIMIT

\* a budget test that is never true
OverLimitNever(n) == FALSE

\* count > POINT_TO_PROCESS_LIMIT
OverLimit(n) == n > POINT_TO_PROCESS_LIMIT

\* a gate that looks at the width only
TooLargeWidthOnly(w, h) == w > MAX_SIZE_TO_COMPILE

\* width > MAX_SIZE_TO_COMPILE || height > MAX_SIZE_TO_COMPILE
TooLarge(w, h) == w > MAX_SIZE_TO_COMPILE \/ h > MAX_SIZE_TO_COMPILE

(***************************************************************************)
(* The inputs: every bitmap of at most MaxArea pixels, with the padding    *)
(* bits of each row all 0 or all 1, and a few large ones.                  *)
(***************************************************************************)
\* byte b of row r of the packed image of a w-wide bitmap; bits[r * w + c] is
\* the bit of pixel (row r, column c), padBit fills the row up to the byte
PackByte(bits, w, padBit, r, b) ==
  LET B(k) == IF 8 * b + k < w THEN bits[r * w + 8 * b + k] ELSE padBit IN
  128 * B(0) + 64 * B(1) + 32 * B(2) + 16 * B(3) + 8 * B(4) + 4 * B(5) + 2 * B(6) + B(7)

Pack(bits, w, h, padBit) ==
  LET rowBytes == (w + 7) \div 8 IN
  [k \in 1..(rowBytes * h) |->
     PackByte(bits, w, padBit, (k - 1) \div rowBytes, (k - 1) % rowBytes)]

Glyph(bits, w, h, padBit) ==
  [width |-> w, height |-> h, img |-> Pack(bits, w, h, padBit)]

SmallSizes == {d \in (1..MaxArea) \X (1..MaxArea) : d[1] * d[2] <= MaxArea}

SmallGlyphs ==
  UNION {
    {Glyph(bits, d[1], d[2], padBit) :
       bits \in [0..(d[1] * d[2] - 1) -> {0, 1}], padBit \in {0, 1}} :
    d \in SmallSizes}

\* bit 0 is ink after unpacking: a checkerboard with ink at (0, 0), a bitmap
\* without ink
CheckerGlyph(w, h) ==
  Glyph([k \in 0..(w * h - 1) |-> ((k \div w) + (k % w)) % 2], w, h, 0)
BlankGlyph(w, h) == Glyph([k \in 0..(w * h - 1) |-> 1], w, h, 0)

LargeGlyphs ==
  {CheckerGlyph(499, 1), CheckerGlyph(501, 1), CheckerGlyph(500, 2),
   CheckerGlyph(1001, 1), CheckerGlyph(1, 1001),
   BlankGlyph(1000, 1), BlankGlyph(1, 1000)}

GlyphIdle ==
  /\ width = 0 /\ height = 0 /\ img = <<>> /\ data = <<>> /\ points = <<>>
  /\ reads = {}
  /\ count = 0 /\ i = 0 /\ j = 0 /\ pos = 0 /\ j0 = 0 /\ sum = 0
  /\ p = 0 /\ p0 = 0 /\ type = 0 /\ pathBuf = <<>> /\ result = "none"
  /\ gpc = "idle"

(***************************************************************************)
(* The steps of compileType3Glyph.                                         *)
(***************************************************************************)
\* lines 214-216
Gate ==
  /\ gpc = "gate"
  /\ IF TooLarge(width, height)
       THEN result' = "null" /\ gpc' = "done"
       ELSE result' = result /\ gpc' = "unpack"
  /\ UNCHANGED <<width, height, img, data, reads, points, count, i, j, pos,
                 j0, sum, p, p0, type, pathBuf>>

\* lines 223-237 and 249-250
UnpackStep ==
  /\ gpc = "unpack"
  /\ points' = [k \in 0..(width1 * (height + 1) - 1) |-> 0]
  /\ data' = Unpack(img, lineSize * height)
  /\ count' = 0
  /\ pos' = 0
  /\ j' = 0
  /\ gpc' = "top"
  /\ UNCHANGED <<width, height, img, reads, i, j0, sum, p, p0, type, pathBuf,
                 result>>

\* a row loop that runs over the padding cells as well
InRowPadded(col) == col < lineSize

\* `j < width`, the test of the loops over the corners between two pixels
InRow(col) == col < width

\* the cells of `data` that the step reads
Read(cells) == reads' = reads \cup cells

\* `if (cond) { points[k] = v; ++count; }`
Mark(cond, k, v) ==
  /\ points' = IF cond THEN Store(points, k, v) ELSE points
  /\ count' = IF cond THEN count + 1 ELSE count

\* lines 251-265: one corner of the top row per step
ClassifyTop ==
  /\ gpc = "top"
  /\ IF j = 0
       THEN /\ Mark(IsSet(At(data, pos)), 0, 1)
            /\ Read({pos})
            /\ j' = 1 /\ pos' = pos /\ i' = i /\ gpc' = gpc
       ELSE IF InRow(j)
       THEN /\ Mark(At(data, pos) # At(data, pos + 1), j,
                    IF Truthy(At(data, pos)) THEN 2 ELSE 1)
            /\ Read({pos, pos + 1})
            /\ j' = j + 1 /\ pos' = pos + 1 /\ i' = i /\ gpc' = gpc
       ELSE /\ Mark(IsSet(At(data, pos)), j, 2)
            /\ Read({pos})
            /\ j' = 0 /\ pos' = pos /\ i' = 1
            /\ gpc' = IF 1 < height THEN "rows" ELSE "bottom"
  /\ UNCHANGED <<width, height, img, data, j0, sum, p, p0, type, pathBuf, result>>

\* lines 266-295: one corner of row i per step, then the budget test
ClassifyRow ==
  /\ gpc = "rows"
  /\ IF j = 0
       THEN LET q == i * lineSize IN
            /\ pos' = q
            /\ j0' = i * width1
            /\ Mark(At(data, q - lineSize) # At(data, q), i * width1,
                    IF Truthy(At(data, q)) THEN 1 ELSE 8)
            /\ sum' = (IF Truthy(At(data, q)) THEN 4 ELSE 0)
                      + (IF Truthy(At(data, q - lineSize)) THEN 8 ELSE 0)
            /\ Read({q - lineSize, q})
            /\ j' = 1 /\ i' = i /\ gpc' = gpc /\ result' = result
       ELSE IF InRow(j)
       THEN LET s == (sum \div 4)
                     + (IF Truthy(At(data, pos + 1)) THEN 4 ELSE 0)
                     + (IF Truthy(At(data, pos - lineSize + 1)) THEN 8 ELSE 0) IN
            /\ sum' = s
            /\ Mark(POINT_TYPES(s) # 0, j0 + j, POINT_TYPES(s))
            /\ Read({pos + 1, pos - lineSize + 1})
            /\ pos' = pos + 1
            /\ j' = j + 1 /\ j0' = j0 /\ i' = i /\ gpc' = gpc /\ result' = result
       ELSE /\ Mark(At(data, pos - lineSize) # At(data, pos), j0 + j,
                    IF Truthy(At(data, pos)) THEN 2 ELSE 4)
            /\ Read({pos - lineSize, pos})
            /\ pos' = pos /\ j0' = j0 /\ sum' = sum /\ j' = 0
            /\ IF OverLimit(count')
                 THEN result' = "null" /\ gpc' = "done" /\ i' = i
                 ELSE /\ result' = result
                      /\ i' = i + 1
                      /\ gpc' = IF i + 1 < height THEN "rows" ELSE "bottom"
  /\ UNCHANGED <<width, height, img, data, p, p0, type, pathBuf>>

\* lines 297-316: one corner of the bottom row per step, then the budget test
ClassifyBottom ==
  /\ gpc = "bottom"
  /\ IF j = 0
       THEN LET q == lineSize * (height - 1) IN
            /\ pos' = q
            /\ j0' = i * width1
            /\ Mark(IsSet(At(data, q)), i * width1, 8)
            /\ Read({q})
            /\ j' = 1 /\ i' = i /\ gpc' = gpc /\ result' = result
       ELSE IF InRow(j)
       THEN /\ Mark(At(data, pos) # At(data, pos + 1), j0 + j,
                    IF Truthy(At(data, pos)) THEN 4 ELSE 8)
            /\ Read({pos, pos + 1})
            /\ pos' = pos + 1
            /\ j' = j + 1 /\ j0' = j0 /\ i' = i /\ gpc' = gpc /\ result' = result
       ELSE /\ Mark(IsSet(At(data, pos)), j0 + j, 4)
            /\ Read({pos})
            /\ pos' = pos /\ j0' = j0 /\ j' = j
            /\ IF OverLimit(count')
                 THEN result' = "null" /\ gpc' = "done" /\ i' = i
                 ELSE result' = result /\ gpc' = "scan" /\ i' = 0
  /\ UNCHANGED <<width, height, img, data, sum, p, p0, type, pathBuf>>

\* lines 327-341: the head of the row loop, the search for a start point and
\* the move-to; line 372 when the loop ends
Scan ==
  /\ gpc = "scan"
  /\ IF count # 0 /\ i <= height
       THEN LET row == i * width1
                starts == {q \in row..(row + width - 1) : At(points, q) # 0} IN
            IF starts = {}
              THEN /\ i' = i + 1
                   /\ UNCHANGED <<p, p0, type, pathBuf, result, gpc>>
              ELSE LET q == Min(starts) IN
                   /\ p' = q /\ p0' = q
                   /\ type' = points[q]
                   /\ pathBuf' = Append(pathBuf, PathCmd("moveTo", q % width1, i))
                   /\ gpc' = "walk"
                   /\ UNCHANGED <<i, result>>
       ELSE /\ result' = "outline" /\ gpc' = "done"
            /\ UNCHANGED <<i, p, p0, type, pathBuf>>
  /\ UNCHANGED <<width, height, img, data, reads, points, count, j, pos, j0, sum>>

\* lines 342-369: one iteration of the outer do-while
Walk ==
  /\ gpc = "walk"
  /\ LET q == IF type \in 0..8 THEN Seek(points, p + Steps(type), Steps(type)) ELSE -1 IN
     IF q = -1
       THEN /\ gpc' = "diverged"
            /\ UNCHANGED <<points, count, p, type, pathBuf>>
       ELSE LET pp == points[q]
                crossing == pp = 5 \/ pp = 10
                t == IF crossing THEN CrossingTurn(pp, type) ELSE pp
                left == IF crossing THEN CrossingKeep(pp, t) ELSE 0 IN
            /\ p' = q
            /\ type' = t
            /\ points' = [points EXCEPT ![q] = left]
            /\ pathBuf' = Append(pathBuf, PathCmd("lineTo", q % width1, q \div width1))
            /\ count' = IF Consumed(left) THEN count - 1 ELSE count
            /\ gpc' = IF q = p0 THEN "scan" ELSE "walk"
  /\ UNCHANGED <<width, height, img, data, reads, i, j, pos, j0, sum, p0, result>>

(***************************************************************************)
(* normalizeFontName(name)                                                 *)
(***************************************************************************)
\* the characters of the model: a letter, the hyphen-minus, the two characters
\* of the class [,_] and two characters of the class \s
Chars == {"a", "-", ",", "_", " ", "\t"}
CommaUnderscore == {",", "_"}
Whitespace == {" ", "\t"}

FontNames == UNION {[1..n -> Chars] : n \in 0..MaxNameLen}

\* String.prototype.replace with a pattern that is not global: the first
\* character of the class only
RECURSIVE ReplaceFirst(_, _, _)
ReplaceFirst(str, class, by) ==
  IF str = <<>> THEN <<>>
  ELSE IF Head(str) \in class THEN by \o Tail(str)
  ELSE <<Head(str)>> \o ReplaceFirst(Tail(str), class, by)

\* String.prototype.replaceAll(/[class]/g, by): every character of the class
\* gives way to `by`, left to right
RECURSIVE ReplaceAll(_, _, _)
ReplaceAll(str, class, by) ==
  IF str = <<>> THEN <<>>
  ELSE (IF Head(str) \in class THEN by ELSE <<Head(str)>>)
         \o ReplaceAll(Tail(str), class, by)

\* line 169
normalizeFontName(name) ==
  ReplaceAll(ReplaceAll(name, CommaUnderscore, <<"-">>), Whitespace, <<>>)

NormalizeIdle == nName = <<>> /\ nResult = <<>>

NormalizeCall ==
  /\ nResult = <<>>
  /\ nResult' = <<normalizeFontName(nName)>>
  /\ UNCHANGED nName

(***************************************************************************)
(* Specifications.                                                         *)
(***************************************************************************)
vars == <<recoverVars, fontVars, glyphVars, normVars>>

InitRecover ==
  /\ rName \in Names
  /\ rMap \in RecoverMaps
  /\ rResult = <<>>
  /\ rLookups = <<>>
  /\ FontIdle
  /\ GlyphIdle
  /\ NormalizeIdle

NextRecover == RecoverCall /\ UNCHANGED <<fontVars, glyphVars, normVars>>

SpecRecover == InitRecover /\ [][NextRecover]_vars

InitFont ==
  /\ \E in \in FontInputs :
       /\ properties = in.properties
       /\ builtInEncoding = in.builtInEncoding
       /\ glyphNames = in.glyphNames
  /\ charCodeToGlyphId = <<>>
  /\ glyphsUnicodeMap = <<>>
  /\ pending = {}
  /\ fetchCount = 0
  /\ fpc = "base"
  /\ RecoverIdle
  /\ GlyphIdle
  /\ NormalizeIdle

NextFont ==
  \/ BasePass /\ UNCHANGED <<recoverVars, glyphVars, normVars>>
  \/ MergeDifference /\ UNCHANGED <<recoverVars, glyphVars, normVars>>
  \/ ReturnTable /\ UNCHANGED <<recoverVars, glyphVars, normVars>>

SpecFont == InitFont /\ [][NextFont]_vars

InitGlyph ==
  /\ \E in \in SmallGlyphs \cup LargeGlyphs :
       /\ width = in.width
       /\ height = in.height
       /\ img = in.img
  /\ data = <<>> /\ points = <<>> /\ reads = {}
  /\ count = 0 /\ i = 0 /\ j = 0 /\ pos = 0 /\ j0 = 0 /\ sum = 0
  /\ p = 0 /\ p0 = 0 /\ type = 0 /\ pathBuf = <<>> /\ result = "none"
  /\ gpc = "gate"
  /\ RecoverIdle
  /\ FontIdle
  /\ NormalizeIdle

NextGlyph ==
  \/ Gate /\ UNCHANGED <<recoverVars, fontVars, normVars>>
  \/ UnpackStep /\ UNCHANGED <<recoverVars, fontVars, normVars>>
  \/ ClassifyTop /\ UNCHANGED <<recoverVars, fontVars, normVars>>
  \/ ClassifyRow /\ UNCHANGED <<recoverVars, fontVars, normVars>>
  \/ ClassifyBottom /\ UNCHANGED <<recoverVars, fontVars, normVars>>
  \/ Scan /\ UNCHANGED <<recoverVars, fontVars, normVars>>
  \/ Walk /\ UNCHANGED <<recoverVars, fontVars, normVars>>

SpecGlyph == InitGlyph /\ [][NextGlyph]_vars

\* the call runs to completion: a synchronous function is never suspended
\* while one of its statements can be executed
SpecGlyphFair == SpecGlyph /\ WF_vars(NextGlyph)

InitNormalize ==
  /\ nName \in FontNames
  /\ nResult = <<>>
  /\ RecoverIdle
  /\ FontIdle
  /\ GlyphIdle

NextNormalize == NormalizeCall /\ UNCHANGED <<recoverVars, fontVars, glyphVars>>

SpecNormalize == InitNormalize /\ [][NextNormalize]_vars

(***************************************************************************)
(* Properties of recoverGlyphName and type1FontGlyphMapping.               *)
(***************************************************************************)
differences == properties.differences

\* the Symbolic bit (value 4) of properties.flags
SymbolicBitSet == (properties.flags \div 4) % 2 = 1

\* id is what a lookup of `name` in glyphNames gives: the 0-based position of
\* its first occurrence, or 0 when glyphNames does not hold it
IsIdOfName(id, name) ==
  \/ /\ \A k \in 1..Len(glyphNames) : glyphNames[k] # name
     /\ id = 0
  \/ \E k \in 1..Len(glyphNames) :
       /\ glyphNames[k] = name
       /\ \A m \in 1..(k - 1) : glyphNames[m] # name
       /\ id = k - 1

\* table t is the name table `tbl` (1-based sequence) translated through glyphNames
IsTranslationOf(t, tbl) ==
  /\ DOMAIN t = 0..(Len(tbl) - 1)
  /\ \A c \in DOMAIN t : IsIdOfName(t[c], tbl[c + 1])

\* the state right after the base pass: no differences entry merged yet
AfterBasePass == fpc = "diffs" /\ pending = DOMAIN differences

\* C1: the base table comes from exactly one source, by the precedence
\* isInternalFont > baseEncodingName > Symbolic bit > StandardEncoding; the
\* three name tables are translated through glyphNames (miss -> 0), the
\* symbolic branch copies builtInEncoding's ids unchanged.
C1_BasePrecedence ==
  AfterBasePass =>
    LET t == charCodeToGlyphId
        arr == builtInEncoding.names
        arrLen == IF DOMAIN arr = {} THEN 0 ELSE Max(DOMAIN arr) + 1
    IN
    IF properties.isInternalFont
      THEN /\ DOMAIN t = 0..(arrLen - 1)
           /\ \A c \in DOMAIN t :
                IsIdOfName(t[c], IF c \in DOMAIN arr THEN arr[c] ELSE "")
    ELSE IF properties.baseEncodingName # ""
      THEN IsTranslationOf(t, getEncoding(properties.baseEncodingName))
    ELSE IF SymbolicBitSet
      THEN t = builtInEncoding.ids
    ELSE IsTranslationOf(t, StandardEncoding)

\* an internal font with the Symbolic bit set whose built-in names were
\* translated to a glyph id other than 0
C1_Witness ==
  /\ AfterBasePass
  /\ properties.isInternalFont
  /\ SymbolicBitSet
  /\ \E c \in DOMAIN charCodeToGlyphId : charCodeToGlyphId[c] > 0

\* the id a differences entry alone gives: direct lookup, else the lookup of
\* the recovered name, else 0
EntryId(name) ==
  IF name \in Range(glyphNames) THEN IndexOf(glyphNames, name)
  ELSE LET r == recoverGlyphName(name, getGlyphsUnicode) IN
       IF r \in Range(glyphNames) THEN IndexOf(glyphNames, r) ELSE 0

\* C2: in the returned table every char code of `differences` holds the id
\* derived from its differences entry alone, whatever the base pass wrote.
C2_DifferencesWin ==
  fpc = "done" =>
    \A c \in DOMAIN differences :
      /\ c \in DOMAIN charCodeToGlyphId
      /\ charCodeToGlyphId[c] = EntryId(differences[c])

\* a returned table in which a differences entry replaced a different id
\* written by the base pass
C2_Witness ==
  /\ fpc = "done"
  /\ \E c \in DOMAIN differences :
       LET base == BaseTable(properties, builtInEncoding, glyphNames) IN
       /\ c \in DOMAIN base
       /\ base[c] # charCodeToGlyphId[c]
       /\ charCodeToGlyphId[c] > 0

\* the symbolic branch: not internal, no base encoding name, Symbolic bit set
OnSymbolicBranch ==
  /\ ~properties.isInternalFont
  /\ properties.baseEncodingName = ""
  /\ SymbolicBitSet

\* C3 as stated: every value of the returned table is a glyph id in
\* [0, len(glyphNames)), on all four branches.
C3_Original ==
  fpc = "done" =>
    \A c \in DOMAIN charCodeToGlyphId :
      0 <= charCodeToGlyphId[c] /\ charCodeToGlyphId[c] < Len(glyphNames)

\* C3 amended: a value written by name lookup (the three name-table branches,
\* and every differences code on any branch) is a glyph id in
\* [0, len(glyphNames)); on the symbolic branch a code that differences does
\* not override holds builtInEncoding's entry unchanged, whatever it is.
C3_Amended ==
  fpc = "done" =>
    \A c \in DOMAIN charCodeToGlyphId :
      IF OnSymbolicBranch /\ c \notin DOMAIN differences
        THEN charCodeToGlyphId[c] = builtInEncoding.ids[c]
        ELSE 0 <= charCodeToGlyphId[c] /\ charCodeToGlyphId[c] < Len(glyphNames)

\* a returned table of the symbolic branch holding a copied entry that is no
\* index of glyphNames beside an overridden code that holds a real glyph id
C3_Witness ==
  /\ fpc = "done"
  /\ OnSymbolicBranch
  /\ \E c \in DOMAIN charCodeToGlyphId \ DOMAIN differences :
       charCodeToGlyphId[c] >= Len(glyphNames)
  /\ \E c \in DOMAIN differences : charCodeToGlyphId[c] > 0

\* the name recovery as the specification words it: the name itself when the
\* map holds it; else the first key, in enumeration order, whose code point is
\* the one the resolver derives for the name; else the name itself
RecoveredName(name, map) ==
  IF \E k \in DOMAIN map : map[k][1] = name THEN name
  ELSE LET u == IF name = "uni00B5" THEN 181 ELSE -1
           hits == {k \in DOMAIN map : map[k][2] = u} IN
       IF u # -1 /\ hits # {}
         THEN map[CHOOSE k \in hits : \A m \in hits : k <= m][1]
         ELSE name

\* C4: a differences entry whose name glyphNames lacks is mapped to the
\* recovered name's index when glyphNames holds the recovered name and to 0 in
\* every other case; no visited differences code is left without an id or
\* with a negative one.
C4_RecoveryFallback ==
  /\ fpc \in {"diffs", "done"} =>
       \A c \in DOMAIN differences \ pending :
         c \in DOMAIN charCodeToGlyphId /\ charCodeToGlyphId[c] >= 0
  /\ fpc = "done" =>
       \A c \in DOMAIN differences :
         (\A k \in 1..Len(glyphNames) : glyphNames[k] # differences[c]) =>
           LET r == RecoveredName(differences[c], getGlyphsUnicode) IN
           IsIdOfName(charCodeToGlyphId[c], r)

\* a returned table where a name missing from glyphNames was recovered to a
\* glyph with a non-zero id, beside an entry that could not be recovered
C4_Witness ==
  /\ fpc = "done"
  /\ \E c \in DOMAIN differences :
       /\ differences[c] = "uni00B5"
       /\ "uni00B5" \notin Range(glyphNames)
       /\ charCodeToGlyphId[c] > 0
  /\ \E c \in DOMAIN differences :
       differences[c] = "foo" /\ charCodeToGlyphId[c] = 0

\* C5: recoverGlyphName returns a name that is a key of the map unchanged and
\* without a resolver call, and applied to its own result it returns that
\* result.
C5_RecoverIdempotent ==
  /\ (Len(rResult) >= 1 /\ \E k \in DOMAIN rMap : rMap[k][1] = rName) =>
       rResult[1] = rName /\ rLookups[1] = 0
  /\ Len(rResult) = 2 => rResult[2] = rResult[1]

\* both calls made, on a name that is a key of the map while an earlier key
\* has the same code point
C5_Witness ==
  /\ Len(rResult) = 2
  /\ \E a, b \in DOMAIN rMap :
       a < b /\ rMap[b][1] = rName /\ rMap[a][2] = rMap[b][2]

(***************************************************************************)
(* Properties of compileType3Glyph.                                        *)
(***************************************************************************)
\* pixel (column x, row y) of the unpacked grid is ink; no ink outside
InkAt(x, y) ==
  /\ 0 <= x /\ x < width /\ 0 <= y /\ y < height
  /\ data[y * (8 * ((width + 7) \div 8)) + x] # 0

InkCount(S) == Cardinality({q \in S : InkAt(q[1], q[2])})

\* corner (x, y) lies on the mask boundary as an outside corner (one ink
\* neighbour), an inside corner (three) or a diagonal crossing (two, opposite)
IsBoundaryCorner(x, y) ==
  LET n == InkCount({<<x - 1, y - 1>>, <<x, y - 1>>, <<x - 1, y>>, <<x, y>>}) IN
  \/ n = 1
  \/ n = 3
  \/ n = 2 /\ (InkAt(x - 1, y - 1) <=> InkAt(x, y))

BoundaryCorners ==
  {c \in (0..width) \X (0..height) : IsBoundaryCorner(c[1], c[2])}

SizeOk == width <= 1000 /\ height <= 1000

\* C6: a bitmap wider or higher than 1000 is answered null by the first
\* step: nothing is unpacked, classified or traced.
C6_SizeGate ==
  ((width > 1000 \/ height > 1000) /\ gpc # "gate") =>
    /\ gpc = "done" /\ result = "null"
    /\ data = <<>> /\ points = <<>> /\ count = 0 /\ pathBuf = <<>>

\* a call answered null for its height alone
C6_Witness ==
  gpc = "done" /\ result = "null" /\ height > 1000 /\ width <= 1000

\* C7: a bitmap that passes the size gate is answered null exactly when more
\* than 1000 corners have a non-zero type; tracing starts only over the
\* complete classification, with at most 1000 marked corners.
C7_PointBudget ==
  /\ (gpc = "done" /\ SizeOk) =>
       (result = "null" <=> Cardinality(BoundaryCorners) > 1000)
  /\ (gpc = "scan" /\ i = 0 /\ pathBuf = <<>>) =>
       /\ count <= 1000
       /\ count = Cardinality(BoundaryCorners)
       /\ \A c \in BoundaryCorners : points[c[2] * (width + 1) + c[1]] # 0

\* a call that passed the gate and was answered null by the budget test
C7_Witness ==
  gpc = "done" /\ result = "null" /\ SizeOk /\ height = 1 /\ pathBuf = <<>>

\* the corner (x, y) the k-th path command stands on, from its coordinates
\* (x / width, 1 - y / height)
CmdX(k) == (pathBuf[k].x[1] * width) \div pathBuf[k].x[2]
CmdY(k) == height - (pathBuf[k].y[1] * height) \div pathBuf[k].y[2]

\* the line-tos: command k draws from the corner of command k-1 to its own
Segments == {k \in 2..Len(pathBuf) : pathBuf[k].op = "lineTo"}

Between(a, lo, b) == (a <= lo /\ lo + 1 <= b) \/ (b <= lo /\ lo + 1 <= a)

\* segment k runs over the unit edge (x, y)-(x+1, y) / (x, y)-(x, y+1)
CoversH(k, x, y) ==
  CmdY(k - 1) = y /\ CmdY(k) = y /\ Between(CmdX(k - 1), x, CmdX(k))
CoversV(k, x, y) ==
  CmdX(k - 1) = x /\ CmdX(k) = x /\ Between(CmdY(k - 1), y, CmdY(k))

\* the unit edges that separate ink from no ink (or from the outside)
BoundaryH ==
  {e \in (0..(width - 1)) \X (0..height) : InkAt(e[1], e[2] - 1) # InkAt(e[1], e[2])}
BoundaryV ==
  {e \in (0..width) \X (0..(height - 1)) : InkAt(e[1] - 1, e[2]) # InkAt(e[1], e[2])}

\* C8: in a returned outline every unit boundary edge of the mask is run over
\* by exactly one line-to of the contours taken together.
C8_EdgesOnce ==
  (gpc = "done" /\ result = "outline") =>
    /\ \A e \in BoundaryH :
         Cardinality({k \in Segments : CoversH(k, e[1], e[2])}) = 1
    /\ \A e \in BoundaryV :
         Cardinality({k \in Segments : CoversV(k, e[1], e[2])}) = 1

\* a returned outline of a mask with a diagonal crossing and more than one
\* contour
C8_Witness ==
  /\ gpc = "done" /\ result = "outline"
  /\ \E c \in (1..(width - 1)) \X (1..(height - 1)) :
       /\ InkAt(c[1] - 1, c[2] - 1) /\ InkAt(c[1], c[2])
       /\ ~InkAt(c[1], c[2] - 1) /\ ~InkAt(c[1] - 1, c[2])
  /\ Cardinality({k \in DOMAIN pathBuf : pathBuf[k].op = "moveTo"}) > 1

\* the fraction f has the value n
FracIs(f, n) == f[2] # 0 /\ f[1] = n * f[2]

CmdIs(k, op, vx, vy) ==
  /\ pathBuf[k].op = op
  /\ FracIs(pathBuf[k].x, vx)
  /\ FracIs(pathBuf[k].y, vy)

OneInkPixel == width = 1 /\ height = 1 /\ gpc # "gate" /\ gpc # "unpack" /\ data[0] # 0

\* C9: a 1x1 bitmap whose pixel is ink gives one contour: a move-to and four
\* line-tos over the corners (0,0), (0,1), (1,1), (1,0) and back to (0,0),
\* at the coordinates (x / width, 1 - y / height) of each corner (x, y).
C9_UnitSquare ==
  (OneInkPixel /\ gpc = "done") =>
    /\ result = "outline"
    /\ Len(pathBuf) = 5
    /\ CmdIs(1, "moveTo", 0, 1)
    /\ CmdIs(2, "lineTo", 0, 0)
    /\ CmdIs(3, "lineTo", 1, 0)
    /\ CmdIs(4, "lineTo", 1, 1)
    /\ CmdIs(5, "lineTo", 0, 1)

\* the 1x1 ink bitmap, compiled
C9_Witness == OneInkPixel /\ gpc = "done" /\ result = "outline"

NoInk == data # <<>> /\ \A k \in DOMAIN data : data[k] = 0

\* C10: a bitmap of valid size without ink gives an outline with no path
\* command, not null.
C10_EmptyOutline ==
  (gpc = "done" /\ 1 <= width /\ width <= 1000 /\ 1 <= height /\ height <= 1000
     /\ NoInk) =>
    result = "outline" /\ pathBuf = <<>>

\* a bitmap without ink of the largest width that passes the gate, compiled
C10_Witness == gpc = "done" /\ NoInk /\ width = 1000 /\ result = "outline"

\* the fraction f is k / n for an integer k with 0 <= k <= n
IsGridFrac(f, n) == f[2] = n /\ n > 0 /\ 0 <= f[1] /\ f[1] <= n

\* the point the pending walk step reaches (-1: none)
WalkTarget ==
  IF type \in 0..8 THEN Seek(points, p + Steps(type), Steps(type)) ELSE -1

\* C11: every emitted coordinate pair is (x / width, 1 - y / height) for a
\* corner (x, y) of the grid, so it lies in the unit square; every walk step
\* ends on a corner of the grid in the row or in the column it started from,
\* and every line-to of a contour is horizontal or vertical.
C11_UnitSquareSteps ==
  /\ \A k \in DOMAIN pathBuf :
       /\ IsGridFrac(pathBuf[k].x, width)
       /\ IsGridFrac(pathBuf[k].y, height)
  /\ \A k \in Segments : CmdX(k - 1) = CmdX(k) \/ CmdY(k - 1) = CmdY(k)
  /\ gpc = "walk" =>
       /\ p \in DOMAIN points
       /\ WalkTarget \in DOMAIN points
       /\ \/ WalkTarget \div width1 = p \div width1
          \/ WalkTarget % width1 = p % width1

\* a returned outline that touches the right edge and the bottom edge of a
\* bitmap at least two pixels wide and high, by steps longer than one pixel
C11_Witness ==
  /\ gpc = "done" /\ result = "outline"
  /\ width >= 2 /\ height >= 2
  /\ \E k \in Segments : CmdX(k) = width /\ CmdX(k - 1) = 0
  /\ \E k \in Segments : CmdY(k) = height /\ CmdY(k - 1) = 0

\* the corners classified since the last budget test (lines 292 and 314; the
\* top row has no test of its own)
Untested ==
  CASE gpc = "top" -> j
    [] gpc \in {"rows", "bottom"} -> IF i = 1 THEN width1 + j ELSE j
    [] gpc = "done" /\ result = "null" /\ SizeOk ->
         IF i = 1 THEN 2 * width1 ELSE width1
    [] OTHER -> 0

\* C12 as stated: the running counter of non-zero corner points is at most
\* 1000 in every reachable state.
C12_Original == count <= 1000

\* C12 amended: the counter is at most 1000 whenever a budget test has let
\* the call go on (at the start of every row after the second, and all
\* through tracing); between two tests it exceeds 1000 by at most the number
\* of corners classified since the last test; a call answered null by the
\* budget test stopped with a counter above 1000.
C12_Amended ==
  /\ count <= POINT_TO_PROCESS_LIMIT + Untested
  /\ (gpc = "done" /\ result = "null" /\ SizeOk) => count > POINT_TO_PROCESS_LIMIT

\* the bottom row of a one-row bitmap, still being classified with a counter
\* above 1000
C12_Witness ==
  gpc = "bottom" /\ j < width /\ count > POINT_TO_PROCESS_LIMIT /\ result = "none"

\* the input bit of pixel (row r, column c): rows of (width + 7) \div 8 bytes,
\* the most significant bit of a byte is its leftmost pixel
ImgBit(r, c) ==
  (img[r * ((width + 7) \div 8) + (c \div 8) + 1] \div (2 ^ (7 - (c % 8)))) % 2

\* the cell of pixel (row r, column c) in the unpacked grid
Pixel(r, c) == data[r * (8 * ((width + 7) \div 8)) + c]

\* the state the unpack loop leaves; `data` is not written afterwards
Unpacked == gpc = "top" /\ j = 0

\* C13 as stated: pixel (row r, column c) of the unpacked grid is 255 exactly
\* when its input bit is 1, and 0 exactly when that bit is 0.
C13_Original ==
  Unpacked =>
    \A r \in 0..(height - 1), c \in 0..(width - 1) :
      /\ Pixel(r, c) = 255 <=> ImgBit(r, c) = 1
      /\ Pixel(r, c) = 0 <=> ImgBit(r, c) = 0

\* C13 amended: pixel (row r, column c) of the unpacked grid is 255 exactly
\* when its input bit is 0, and 0 exactly when that bit is 1; the rows of the
\* input are padded to bytes, most significant bit first.
C13_Amended ==
  Unpacked =>
    \A r \in 0..(height - 1), c \in 0..(width - 1) :
      /\ Pixel(r, c) = 255 <=> ImgBit(r, c) = 0
      /\ Pixel(r, c) = 0 <=> ImgBit(r, c) = 1

\* an unpacked bitmap of several rows whose second row holds a set bit left
\* of a clear bit, with set padding bits
C13_Witness ==
  /\ Unpacked /\ height >= 2 /\ width >= 2
  /\ ImgBit(1, 0) = 1 /\ ImgBit(1, 1) = 0
  /\ img[1] % 2 = 1

(***************************************************************************)
(* Properties of normalizeFontName.                                        *)
(***************************************************************************)
IsStripped(ch) == ch \in CommaUnderscore \cup Whitespace
IsKept(ch) == ~IsStripped(ch)
IsNoSpace(ch) == ch \notin Whitespace

\* C14 as stated: the result is the input with every comma, underscore and
\* whitespace character deleted, every other character kept in order.
C14_Original ==
  nResult # <<>> => nResult[1] = SelectSeq(nName, IsKept)

\* C14 amended: the result is the input with every whitespace character
\* deleted and every comma and underscore replaced by one hyphen-minus, every
\* other character kept in order.
C14_Amended ==
  nResult # <<>> =>
    LET kept == SelectSeq(nName, IsNoSpace) IN
    /\ Len(nResult[1]) = Len(kept)
    /\ \A k \in 1..Len(kept) :
         nResult[1][k] = IF kept[k] \in CommaUnderscore THEN "-" ELSE kept[k]

\* a normalized name that held a comma, an underscore and a whitespace
C14_Witness ==
  /\ nResult # <<>>
  /\ \E a, b, c \in DOMAIN nName :
       nName[a] = "," /\ nName[b] = "_" /\ nName[c] \in Whitespace
  /\ Len(nResult[1]) = 2

(***************************************************************************)
(* Termination of compileType3Glyph.                                       *)
(***************************************************************************)
MoveTos == {k \in DOMAIN pathBuf : pathBuf[k].op = "moveTo"}

\* the last command of the contour that the move-to k opens
ContourEnd(k) ==
  LET later == {m \in MoveTos : m > k} IN
  IF later = {} THEN Len(pathBuf) ELSE Min(later) - 1

\* the call has returned: every contour of the path is closed, by at least
\* four line-tos
ContoursClosed ==
  gpc = "done" =>
    \A k \in MoveTos :
      /\ ContourEnd(k) >= k + 4
      /\ pathBuf[ContourEnd(k)].x = pathBuf[k].x
      /\ pathBuf[ContourEnd(k)].y = pathBuf[k].y

\* cell value `after` is `before` with one of its direction bits cleared
OneBitConsumed(before, after) ==
  \/ before \in {1, 2, 4, 8} /\ after = 0
  \/ before = 5 /\ after \in {1, 4}
  \/ before = 10 /\ after \in {2, 8}

\* a walk step ends on a marked corner, consumes one direction bit of that
\* corner and leaves every other corner alone; the walk ends on its start point
WalkConsumes ==
  gpc = "walk" =>
    /\ gpc' # "diverged"
    /\ OneBitConsumed(points[p'], points'[p'])
    /\ \A q \in DOMAIN points : q # p' => points'[q] = points[q]
    /\ (gpc' = "scan" <=> p' = p0)

\* C15: every call ends with an answer; no walk step fails to reach a marked
\* corner, each step consumes a direction bit of the corner it reaches, each
\* walk ends on its start point, so that every contour is closed.
C15_Terminates ==
  /\ <>(gpc = "done")
  /\ [](gpc # "diverged")
  /\ []ContoursClosed
  /\ [][WalkConsumes]_vars

\* a returned outline of three contours or more
C15_Witness ==
  gpc = "done" /\ result = "outline" /\ Cardinality(MoveTos) >= 3

(***************************************************************************)
(* Crossings.                                                              *)
(***************************************************************************)
\* corner (x, y) is a diagonal crossing: two ink neighbours, opposite
IsCrossingCorner(x, y) ==
  /\ InkCount({<<x - 1, y - 1>>, <<x, y - 1>>, <<x - 1, y>>, <<x, y>>}) = 2
  /\ InkAt(x - 1, y - 1) <=> InkAt(x, y)

CrossingCorners ==
  {c \in (0..width) \X (0..height) : IsCrossingCorner(c[1], c[2])}

\* the directions: 1 down, 2 left, 4 up, 8 right; the quarter turn that the
\* walk makes on its first visit of a crossing
Turned(t) ==
  CASE t = 1 -> 2
    [] t = 2 -> 4
    [] t = 4 -> 8
    [] t = 8 -> 1
    [] OTHER -> 0

\* a walk step that ends on a crossing: on the first visit (the cell holds 5
\* or 10) the walk leaves by the direction bit of the code that the incoming
\* direction selects, the cell keeps the other bit and the counter stays; on
\* the second visit the walk leaves by the bit that was kept, the cell
\* becomes 0 and the counter goes down by one
CrossingVisit ==
  (gpc = "walk" /\ gpc' # "diverged"
     /\ IsCrossingCorner(p' % width1, p' \div width1)) =>
    IF points[p'] \in {5, 10}
      THEN /\ type' = Turned(type)
           /\ type' \in {1, 2, 4, 8}
           /\ BitAnd(points[p'], type') = type'
           /\ points'[p'] = points[p'] - type'
           /\ points'[p'] \in {1, 2, 4, 8}
           /\ count' = count
      ELSE /\ points[p'] \in {1, 2, 4, 8}
           /\ type' = points[p']
           /\ points'[p'] = 0
           /\ count' = count - 1

\* the line-tos of the path that end on corner c
VisitsOf(c) == {k \in Segments : CmdX(k) = c[1] /\ CmdY(k) = c[2]}

\* C16: the walks of a call that returns an outline visit every crossing
\* exactly twice; the first visit leaves by one direction bit of the code,
\* keeps the other in the cell and does not touch the counter, the second
\* leaves by the kept bit, empties the cell and decrements the counter once.
C16_CrossingTwice ==
  /\ [][CrossingVisit]_vars
  /\ []((gpc = "done" /\ result = "outline") =>
          \A c \in CrossingCorners :
            Cardinality(VisitsOf(c)) = 2 /\ points[c[2] * width1 + c[1]] = 0)

\* a returned outline of a mask with a crossing of each diagonal
C16_Witness ==
  /\ gpc = "done" /\ result = "outline"
  /\ \E c \in CrossingCorners : InkAt(c[1], c[2])
  /\ \E c \in CrossingCorners : ~InkAt(c[1], c[2])

(***************************************************************************)
(* The fetch of the glyph-name/Unicode map by type1FontGlyphMapping.       *)
(***************************************************************************)
\* the differences codes visited so far whose name glyphNames does not hold
VisitedMisses ==
  IF fpc \in {"diffs", "done"}
    THEN {c \in DOMAIN differences \ pending : differences[c] \notin Range(glyphNames)}
    ELSE {}

\* the map is fetched when the first miss is visited, and not before
FetchedAtFirstMiss ==
  /\ fetchCount <= 1
  /\ fetchCount = 1 <=> VisitedMisses # {}
  /\ glyphsUnicodeMap = IF fetchCount = 0 THEN <<>> ELSE <<getGlyphsUnicode>>

\* once fetched, the map is kept and not fetched again
FetchedOnce ==
  glyphsUnicodeMap # <<>> =>
    glyphsUnicodeMap' = glyphsUnicodeMap /\ fetchCount' = fetchCount

\* C17: one call fetches the glyph-name/Unicode map at most once, at the first
\* differences entry whose name glyphNames does not hold; without such an
\* entry it is never fetched, and every later miss uses the map fetched then.
C17_FetchOnce == []FetchedAtFirstMiss /\ [][FetchedOnce]_vars

\* a returned table after two misses and one fetch
C17_Witness ==
  /\ fpc = "done"
  /\ Cardinality(VisitedMisses) >= 2
  /\ fetchCount = 1

(***************************************************************************)
(* The classification against the table of corner types.                   *)
(***************************************************************************)
\* 1 when pixel (x, y) is ink, 0 when it is not or lies outside the bitmap
Ink01(x, y) == IF InkAt(x, y) THEN 1 ELSE 0

\* the table entry of corner (x, y): its neighbours below left, above left,
\* below right and above right weigh 1, 2, 4 and 8
TableType(x, y) ==
  POINT_TYPES(Ink01(x - 1, y) + 2 * Ink01(x - 1, y - 1)
              + 4 * Ink01(x, y) + 8 * Ink01(x, y - 1))

Corners == (0..width) \X (0..height)

\* every corner has been classified and no walk has started
Classified == gpc = "scan" /\ i = 0 /\ pathBuf = <<>>

\* C18: the classification gives every corner of the grid, the corners of the
\* four borders included, the POINT_TYPES entry of its four neighbouring
\* pixels with the pixels outside the bitmap counted as no ink; the entry is
\* non-zero exactly on outside corners, inside corners and diagonal
\* crossings. A call stopped by the budget has written no other value.
C18_TableRefinement ==
  /\ Classified =>
       \A c \in Corners :
         /\ points[c[2] * width1 + c[1]] = TableType(c[1], c[2])
         /\ TableType(c[1], c[2]) # 0 <=> IsBoundaryCorner(c[1], c[2])
  /\ (gpc = "done" /\ result = "null" /\ SizeOk) =>
       \A c \in Corners :
         points[c[2] * width1 + c[1]] \in {0, TableType(c[1], c[2])}

\* a classified grid with a crossing of each diagonal, an inside corner and
\* an unmarked corner on a border
C18_Witness ==
  /\ Classified
  /\ \E q \in DOMAIN points : points[q] = 5
  /\ \E q \in DOMAIN points : points[q] = 10
  /\ \E c \in Corners :
       InkCount({<<c[1] - 1, c[2] - 1>>, <<c[1], c[2] - 1>>,
                 <<c[1] - 1, c[2]>>, <<c[1], c[2]>>}) = 3
  /\ \E x \in 1..(width - 1) : points[x] = 0

(***************************************************************************)
(* The point counter during tracing.                                       *)
(***************************************************************************)
Marked == {q \in DOMAIN points : points[q] # 0}

Tracing == gpc \in {"scan", "walk"} \/ (gpc = "done" /\ result = "outline")

\* between walk steps the counter is the number of marked cells; a returned
\* outline leaves no marked cell
CounterIsMarked ==
  /\ Tracing => count = Cardinality(Marked) /\ count >= 0
  /\ (gpc = "done" /\ result = "outline") =>
       count = 0 /\ \A q \in DOMAIN points : points[q] = 0

\* a walk step decrements the counter, by one, exactly when it empties a cell
CounterStep ==
  gpc = "walk" =>
    IF \E q \in DOMAIN points : points[q] # 0 /\ points'[q] = 0
      THEN count' = count - 1
      ELSE count' = count

\* C19: all through tracing, after every walk step, the counter is the number
\* of non-zero cells of the corner grid; a step decrements it exactly when it
\* empties a cell; it is never negative, and a returned outline leaves the
\* counter at 0 and every cell at 0.
C19_CounterMatches == []CounterIsMarked /\ [][CounterStep]_vars

\* a walk under way over a grid that holds a crossing visited once
C19_Witness ==
  /\ gpc = "walk" /\ count >= 2
  /\ \E c \in CrossingCorners : points[c[2] * width1 + c[1]] \in {1, 2, 4, 8}

(***************************************************************************)
(* The padding bits of the packed rows.                                    *)
(***************************************************************************)
\* cell k of the unpacked grid is the cell of a pixel of the bitmap: not a
\* padding cell at the end of a row, not a cell outside the grid
IsPixelCell(k) ==
  /\ 0 <= k
  /\ k % (8 * ((width + 7) \div 8)) < width
  /\ k \div (8 * ((width + 7) \div 8)) < height

\* the unpacked grids of two inputs of the same width and height that agree
\* on every pixel bit agree on every cell that has been read
ReadsOnlyPixels == \A k \in reads : IsPixelCell(k)

\* tracing reads no cell of the unpacked grid
TracingReadsNothing == gpc \in {"scan", "walk"} => reads' = reads

\* C20: the classification reads no padding cell of the unpacked grid, and
\* tracing reads no cell of it at all; every step of the call is a function
\* of width, height, the cells read and what earlier steps wrote, so two
\* inputs of the same size that differ in padding bits only give the same
\* answer.
C20_PaddingIgnored == []ReadsOnlyPixels /\ [][TracingReadsNothing]_vars

\* an outline returned for a bitmap with set padding bits, whose pixels were
\* all read
C20_Witness ==
  /\ gpc = "done" /\ result = "outline" /\ pathBuf # <<>>
  /\ width >= 2 /\ height >= 2
  /\ img[1] % 2 = 1
  /\ \A k \in DOMAIN data : IsPixelCell(k) => k \in reads

=============================================================================
